---- MODULE Spec2Model ----
(***************************************************************************)
(* Model of the group-shuffle scoring cache (src/src/cache.rs), the action *)
(* algebra (src/src/action.rs) and the condition types (src/src/model.rs). *)
(* The annealing loop, of which src/src/anneal.rs holds Params and State,  *)
(* is modelled from section 4.6 of the specification, and the swap         *)
(* generator from section 4.5.  The GroupCache of src/src/anneal.rs, which *)
(* keeps a running score per member, is modelled from its code.            *)
(*                                                                         *)
(* Score is f64 in the source.  Every penalty used here is an integer and  *)
(* every Ratio bound is a dyadic fraction, so all f64 sums, differences    *)
(* and products of the source are exact and are modelled by Int.           *)
(* Vec indices are 0-based in the source and in the actions of this model; *)
(* TLA+ sequences are 1-based, so element i of a Vec is seq[i + 1].        *)
(***************************************************************************)
EXTENDS Integers, Sequences, FiniteSets, TLC

\* ---------------------------------------------------------------- bounds
\* Member ids are 0 .. NMembers - 1.
NMembers == 3
\* Number of groups of the table (fixed for a run).
NGroups == 2
\* Number of TableCache.act calls explored in one run.
MaxActs == 2
\* Operand scores of the ActionResult operator are -MaxScore .. MaxScore.
MaxScore == 2
\* Longest error list of a Failed operand.
MaxErrs == 2
\* Depth of nested `rhs + self` calls after which the call is known never
\* to return (the two operands alternate for ever).
MaxStack == 3

VARIABLES
    groups,         \* TableCache.groups: Seq of GroupCache records
    penalty_score,  \* TableCache.penalty_score
    condition,      \* the Condition threaded through the run
    last,           \* the last call made on the cache and what it returned
    pre,            \* the cache as it was before the last call
    nActs,          \* number of act calls made so far
    lhs, rhs, sum,  \* operands and result of ActionResult::add
    args, ret,      \* arguments and return value of a function called on its own
    pc,             \* position of the annealing loop
    candidate,      \* the candidate Swap of the current iteration
    n_iterations,   \* State.n_iterations
    temperature,    \* State.temperature, as the number of coolings applied
    pool, drawn,    \* SwapGenerator: positions left in the sweep, positions drawn
    cached          \* the GroupCache of anneal.rs (members as CachedMember)

vars == <<groups, penalty_score, condition, last, pre, nActs, lhs, rhs, sum,
          args, ret, pc, candidate, n_iterations, temperature,
          pool, drawn, cached>>
fnVars == <<args, ret>>
driverVars == <<pc, candidate, n_iterations, temperature>>
auxVars == <<pool, drawn, cached>>

\* ------------------------------------------------------------- utilities
RECURSIVE SumOver(_, _)
\* Iterator::sum over the values f[x], x in S.
SumOver(S, f) ==
    IF S = {} THEN 0
    ELSE LET x == CHOOSE y \in S : TRUE
         IN  f[x] + SumOver(S \ {x}, f)

RECURSIVE SetToVec(_)
\* iter().cloned().collect::<Vec<_>>() of a HashSet: some order of its elements.
SetToVec(S) ==
    IF S = {} THEN <<>>
    ELSE LET x == CHOOSE y \in S : TRUE
         IN  <<x>> \o SetToVec(S \ {x})

RECURSIVE FlatMap(_, _)
\* iter().flat_map(f).collect::<Vec<_>>() over the sequence s, f a function.
FlatMap(s, f) ==
    IF s = <<>> THEN <<>> ELSE f[Head(s)] \o FlatMap(Tail(s), f)

\* Vec::remove(index): the element leaves, later elements shift down.
VecRemove(s, index) ==
    [k \in 1..(Len(s) - 1) |-> IF k <= index THEN s[k] ELSE s[k + 1]]

\* Vec::insert(index, x): x lands at index, later elements shift up.
VecInsert(s, index, x) ==
    [k \in 1..(Len(s) + 1) |->
        IF k <= index THEN s[k] ELSE IF k = index + 1 THEN x ELSE s[k - 1]]

\* ------------------------------------------------------ entities (model.rs)
Tags == {"a", "b", "c"}
Ids == 0..(NMembers - 1)

\* Tag sets of the members: one tag, two tags, tags shared between members,
\* and no tag at all.
TagsOf(id) ==
    CASE id % 4 = 0 -> {"a"}
      [] id % 4 = 1 -> {"a", "b"}
      [] id % 4 = 2 -> {"b", "c"}
      [] OTHER      -> {}

Member(id) == [id |-> id, tags |-> TagsOf(id)]
Members == {Member(id) : id \in Ids}
NoMember == [id |-> -1, tags |-> {}]

\* ---------------------------------------------------- condition (model.rs)
\* Mutation of get_pair: the key is the array of the two ids as given, which
\* matches a stored pair only in ascending order.
get_pair_OrderedKey(penalty, a, b) ==
    IF a <= b /\ {a, b} \in DOMAIN penalty.scores
    THEN penalty.scores[{a, b}]
    ELSE penalty.default

\* RelationPenalty.get_pair: the key is BTreeSet::from(ids), the unordered
\* pair (a one-element set when both ids are equal).
get_pair(penalty, a, b) ==
    IF {a, b} \in DOMAIN penalty.scores
    THEN penalty.scores[{a, b}]
    ELSE penalty.default

\* The id-chain penalties of the test fixture: (i, i+1) -> i + 1.
ChainScores == [p \in {{i, i + 1} : i \in 0..NMembers} |->
                    (CHOOSE j \in p : \A k \in p : j >= k)]

CountRange(min, max) == [kind |-> "Count", min |-> min, max |-> max, den |-> 1]
\* Ratio {min: min/den, max: max/den}
RatioRange(min, max, den) == [kind |-> "Ratio", min |-> min, max |-> max, den |-> den]

\* The Condition of a run: the id-chain penalties over a non-zero default,
\* the Count {min: 1, max: 2} range of the tests on tag a, a Ratio range
\* {min: 0.0, max: 0.5} on tag b, and tag c unconstrained.
Conditions ==
    { [penalty    |-> [scores |-> ChainScores, default |-> 1],
       constraint |-> [t \in {"a", "b"} |->
                         IF t = "a" THEN CountRange(1, 2) ELSE RatioRange(0, 1, 2)]] }

\* A Condition that the initial table satisfies: at most one member with tag
\* a in a group (Count {min: 0, max: 1}) and at most half of a group's
\* members with tag c (Ratio {min: 0.0, max: 0.5}).
FeasibleConditions ==
    { [penalty    |-> [scores |-> ChainScores, default |-> 1],
       constraint |-> [t \in {"a", "c"} |->
                         IF t = "a" THEN CountRange(0, 1) ELSE RatioRange(0, 1, 2)]] }

\* ---------------------------------------------------- TagCounter (cache.rs)
\* From<Vec<Tag>>: tally of a vector of tags; only tags that occur get an entry.
TagCounterFrom(tags) ==
    [t \in {tags[k] : k \in DOMAIN tags} |->
        Cardinality({k \in DOMAIN tags : tags[k] = t})]

\* member.tags.iter().cloned().collect::<Vec<Tag>>().into()
MemberTagCounter(member) == TagCounterFrom(SetToVec(member.tags))

\* impl Add for TagCounter: entry(tag).or_insert(0) += count
TagCounterAdd(self, other) ==
    [t \in (DOMAIN self) \cup (DOMAIN other) |->
        (IF t \in DOMAIN self THEN self[t] ELSE 0)
      + (IF t \in DOMAIN other THEN other[t] ELSE 0)]

\* impl Sub for TagCounter: entry(tag).or_insert(count) -= count.  A negative
\* value here is a usize underflow of the source.
TagCounterSub(self, other) ==
    [t \in (DOMAIN self) \cup (DOMAIN other) |->
        IF t \in DOMAIN other
        THEN (IF t \in DOMAIN self THEN self[t] ELSE other[t]) - other[t]
        ELSE self[t]]

\* tagcounts.0.get(tag).copied().unwrap_or(0)
TagCount(tagcounts, tag) == IF tag \in DOMAIN tagcounts THEN tagcounts[tag] ELSE 0

\* Mutation of Constraint.check: the bounds of a Ratio range are compared
\* with the count as they are, not multiplied by n_members.
ConstraintCheck_RatioUnscaled(constraint, tagcounts, n_members) ==
    {tag \in DOMAIN constraint :
        LET range == constraint[tag]
            count == TagCount(tagcounts, tag)
        IN  IF range.kind = "Ratio"
            THEN \/ count * range.den < range.min
                 \/ count * range.den > range.max
            ELSE count < range.min \/ count > range.max}

\* Constraint.check: the set of violated tags; the empty set is Ok(()).
ConstraintCheck(constraint, tagcounts, n_members) ==
    {tag \in DOMAIN constraint :
        LET range == constraint[tag]
            count == TagCount(tagcounts, tag)
        IN  IF range.kind = "Ratio"
            THEN \/ count * range.den < range.min * n_members
                 \/ count * range.den > range.max * n_members
            ELSE count < range.min \/ count > range.max}

\* ------------------------------------------------- ActionResult (action.rs)
ScoreDiff(s) == [kind |-> "ScoreDiff", score |-> s, errs |-> <<>>]
UnsatisfiedScoreDiff(s) == [kind |-> "UnsatisfiedScoreDiff", score |-> s, errs |-> <<>>]
Failed(errs) == [kind |-> "Failed", score |-> 0, errs |-> errs]
\* The call never returns a value: an unwrap() of None panics, or the
\* recursion of `+` never ends.
Aborted == [kind |-> "Aborted", score |-> 0, errs |-> <<>>]
NoResult == [kind |-> "None", score |-> 0, errs |-> <<>>]
InvalidPosition == "InvalidPosition"

RECURSIVE ResultAddRec(_, _, _)
\* impl Add for ActionResult.  The four arms of the match, and `_ => rhs + self`
\* as a call with the operands exchanged; depth counts the nested calls.
ResultAddRec(self, other, depth) ==
    CASE self.kind = "ScoreDiff" /\ other.kind = "ScoreDiff" ->
            ScoreDiff(self.score + other.score)
      [] self.kind = "ScoreDiff" /\ other.kind = "UnsatisfiedScoreDiff" ->
            UnsatisfiedScoreDiff(self.score + other.score)
      [] self.kind = "UnsatisfiedScoreDiff" /\ other.kind = "UnsatisfiedScoreDiff" ->
            UnsatisfiedScoreDiff(self.score + other.score)
      [] self.kind = "Failed" /\ other.kind = "Failed" ->
            Failed(self.errs \o other.errs)
      [] OTHER ->
            IF depth >= MaxStack THEN Aborted
            ELSE ResultAddRec(other, self, depth + 1)

\* Mutation of `+`: a satisfied and an unsatisfied operand combine into a
\* satisfied result.
ResultAdd_NoTaint(self, other) ==
    IF {self.kind, other.kind} = {"ScoreDiff", "UnsatisfiedScoreDiff"}
    THEN ScoreDiff(self.score + other.score)
    ELSE ResultAddRec(self, other, 0)

ResultAdd(self, other) == ResultAddRec(self, other, 0)

\* --------------------------------------------------- GroupCache (cache.rs)
\* Mutation of Group::calc_score: the sum runs over permutations(2), so
\* every unordered pair is counted twice.
calc_score_Permutations(members, penalty) ==
    LET pairs == {p \in (DOMAIN members) \X (DOMAIN members) : p[1] # p[2]}
    IN  SumOver(pairs, [p \in pairs |->
            get_pair(penalty, members[p[1]].id, members[p[2]].id)])

\* Group::calc_score: get_pair summed over combinations(2) of the members.
calc_score(members, penalty) ==
    LET pairs == {p \in (DOMAIN members) \X (DOMAIN members) : p[1] < p[2]}
    IN  SumOver(pairs, [p \in pairs |->
            get_pair(penalty, members[p[1]].id, members[p[2]].id)])

\* GroupCache::create
GroupCacheCreate(members, penalty) ==
    [members       |-> members,
     tagcounts     |-> TagCounterFrom(
                          FlatMap(members, [m \in {members[k] : k \in DOMAIN members}
                                               |-> SetToVec(m.tags)])),
     penalty_score |-> calc_score(members, penalty)]

\* GroupCache::get_ids: a HashSet, so equal ids collapse.
get_ids(group) == {group.members[k].id : k \in DOMAIN group.members}

\* Outcome of Constraint.check(..).is_ok() as ScoreDiff / UnsatisfiedScoreDiff.
Classify(cond, tagcounts, n_members, score) ==
    IF ConstraintCheck(cond.constraint, tagcounts, n_members) = {}
    THEN ScoreDiff(score)
    ELSE UnsatisfiedScoreDiff(score)

\* GroupCache::simulate_add
simulate_add(group, member, cond) ==
    LET ids       == get_ids(group)
        score     == SumOver(ids, [id \in ids |-> get_pair(cond.penalty, member.id, id)])
        tagcounts == TagCounterAdd(group.tagcounts, MemberTagCounter(member))
    IN  Classify(cond, tagcounts, Len(group.members) + 1, score)

\* Mutation of GroupCache::simulate_remove: the projection is classified
\* against the present size of the group instead of the size less one.
simulate_remove_KeepsSize(group, index, cond) ==
    IF index < Len(group.members)
    THEN LET member    == group.members[index + 1]
             tagcounts == TagCounterSub(group.tagcounts, MemberTagCounter(member))
             ids       == {id \in get_ids(group) : id # member.id}
             score     == SumOver(ids, [id \in ids |->
                              get_pair(cond.penalty, member.id, id)])
         IN  Classify(cond, tagcounts, Len(group.members), -score)
    ELSE Failed(<<InvalidPosition>>)

\* GroupCache::simulate_remove
simulate_remove(group, index, cond) ==
    IF index < Len(group.members)
    THEN LET member    == group.members[index + 1]
             tagcounts == TagCounterSub(group.tagcounts, MemberTagCounter(member))
             ids       == {id \in get_ids(group) : id # member.id}
             score     == SumOver(ids, [id \in ids |->
                              get_pair(cond.penalty, member.id, id)])
         IN  Classify(cond, tagcounts, Len(group.members) - 1, -score)
    ELSE Failed(<<InvalidPosition>>)

\* Mutation of GroupCache::simulate_swap: the id of the member that leaves
\* is not filtered out of the ids the pair sums run over.
simulate_swap_CountsRemoved(group, index, member, cond) ==
    IF index < Len(group.members)
    THEN LET removed_member == group.members[index + 1]
             ids       == get_ids(group)
             score     == SumOver(ids, [id \in ids |->
                              get_pair(cond.penalty, member.id, id)
                            - get_pair(cond.penalty, removed_member.id, id)])
             tagcounts == TagCounterSub(
                              TagCounterAdd(group.tagcounts, MemberTagCounter(member)),
                              MemberTagCounter(removed_member))
         IN  Classify(cond, tagcounts, Len(group.members), score)
    ELSE Failed(<<InvalidPosition>>)

\* GroupCache::simulate_swap
simulate_swap(group, index, member, cond) ==
    IF index < Len(group.members)
    THEN LET removed_member == group.members[index + 1]
             ids       == {id \in get_ids(group) : id # removed_member.id}
             score     == SumOver(ids, [id \in ids |->
                              get_pair(cond.penalty, member.id, id)
                            - get_pair(cond.penalty, removed_member.id, id)])
             tagcounts == TagCounterSub(
                              TagCounterAdd(group.tagcounts, MemberTagCounter(member)),
                              MemberTagCounter(removed_member))
         IN  Classify(cond, tagcounts, Len(group.members), score)
    ELSE Failed(<<InvalidPosition>>)

\* Mutation of GroupCache::add: the tags of the new member are not tallied.
GroupCacheAdd_ForgetsTags(group, member, cond) ==
    LET ids == get_ids(group)
    IN  [members       |-> Append(group.members, member),
         tagcounts     |-> group.tagcounts,
         penalty_score |-> group.penalty_score
                           + SumOver(ids, [id \in ids |->
                                 get_pair(cond.penalty, member.id, id)])]

\* GroupCache::add.  Always Ok(()).
GroupCacheAdd(group, member, cond) ==
    LET ids == get_ids(group)
    IN  [members       |-> Append(group.members, member),
         tagcounts     |-> TagCounterAdd(group.tagcounts, MemberTagCounter(member)),
         penalty_score |-> group.penalty_score
                           + SumOver(ids, [id \in ids |->
                                 get_pair(cond.penalty, member.id, id)])]

\* Mutation of GroupCache::remove: the pair sum is added instead of subtracted.
GroupCacheRemove_AddsScore(group, index, cond) ==
    IF Len(group.members) <= index
    THEN [ok |-> FALSE, group |-> group, member |-> NoMember]
    ELSE LET member  == group.members[index + 1]
             members == VecRemove(group.members, index)
             ids     == {members[k].id : k \in DOMAIN members}
         IN  [ok     |-> TRUE,
              member |-> member,
              group  |->
                [members       |-> members,
                 tagcounts     |-> TagCounterSub(group.tagcounts, MemberTagCounter(member)),
                 penalty_score |-> group.penalty_score
                                   + SumOver(ids, [id \in ids |->
                                         get_pair(cond.penalty, member.id, id)])]]

\* GroupCache::remove: Err(InvalidPosition) (ok = FALSE, the group untouched)
\* or Ok(member) with the group after the removal.
GroupCacheRemove(group, index, cond) ==
    IF Len(group.members) <= index
    THEN [ok |-> FALSE, group |-> group, member |-> NoMember]
    ELSE LET member  == group.members[index + 1]
             members == VecRemove(group.members, index)
             ids     == {members[k].id : k \in DOMAIN members}
         IN  [ok     |-> TRUE,
              member |-> member,
              group  |->
                [members       |-> members,
                 tagcounts     |-> TagCounterSub(group.tagcounts, MemberTagCounter(member)),
                 penalty_score |-> group.penalty_score
                                   - SumOver(ids, [id \in ids |->
                                         get_pair(cond.penalty, member.id, id)])]]

\* Mutation of GroupCache::swap: the tags of the displaced member are not
\* subtracted from the tag counts.
GroupCacheSwap_KeepsTags(group, index, member, cond) ==
    IF Len(group.members) <= index
    THEN [ok |-> FALSE, group |-> group, member |-> NoMember]
    ELSE LET removed_member == group.members[index + 1]
             members == VecRemove(group.members, index)
             ids     == {members[k].id : k \in DOMAIN members}
         IN  [ok     |-> TRUE,
              member |-> removed_member,
              group  |->
                [members       |-> VecInsert(members, index, member),
                 tagcounts     |-> TagCounterAdd(group.tagcounts, MemberTagCounter(member)),
                 penalty_score |-> group.penalty_score
                                   + SumOver(ids, [id \in ids |->
                                         get_pair(cond.penalty, member.id, id)
                                       - get_pair(cond.penalty, removed_member.id, id)])]]

\* Mutation of GroupCache::swap: the new member is pushed at the end instead
\* of inserted at the index.
GroupCacheSwap_PushesBack(group, index, member, cond) ==
    IF Len(group.members) <= index
    THEN [ok |-> FALSE, group |-> group, member |-> NoMember]
    ELSE LET removed_member == group.members[index + 1]
             members == VecRemove(group.members, index)
             ids     == {members[k].id : k \in DOMAIN members}
         IN  [ok     |-> TRUE,
              member |-> removed_member,
              group  |->
                [members       |-> Append(members, member),
                 tagcounts     |-> TagCounterSub(
                                       TagCounterAdd(group.tagcounts, MemberTagCounter(member)),
                                       MemberTagCounter(removed_member)),
                 penalty_score |-> group.penalty_score
                                   + SumOver(ids, [id \in ids |->
                                         get_pair(cond.penalty, member.id, id)
                                       - get_pair(cond.penalty, removed_member.id, id)])]]

\* GroupCache::swap: Err(InvalidPosition) or Ok(removed_member).
GroupCacheSwap(group, index, member, cond) ==
    IF Len(group.members) <= index
    THEN [ok |-> FALSE, group |-> group, member |-> NoMember]
    ELSE LET removed_member == group.members[index + 1]
             members == VecRemove(group.members, index)
             ids     == {members[k].id : k \in DOMAIN members}
         IN  [ok     |-> TRUE,
              member |-> removed_member,
              group  |->
                [members       |-> VecInsert(members, index, member),
                 tagcounts     |-> TagCounterSub(
                                       TagCounterAdd(group.tagcounts, MemberTagCounter(member)),
                                       MemberTagCounter(removed_member)),
                 penalty_score |-> group.penalty_score
                                   + SumOver(ids, [id \in ids |->
                                         get_pair(cond.penalty, member.id, id)
                                       - get_pair(cond.penalty, removed_member.id, id)])]]

\* --------------------------------------------------- TableCache (cache.rs)
Position(g, m) == [group_index |-> g, member_index |-> m]
NoPosition == Position(-1, -1)

\* Action (the shape used by cache.rs).  Remove(position) keeps its position
\* in position1, Move keeps source_position in position1 and target_group in
\* group_index.
AddAction(member, group_index) ==
    [kind |-> "Add", position1 |-> NoPosition, position2 |-> NoPosition,
     member |-> member, group_index |-> group_index]
RemoveAction(position) ==
    [kind |-> "Remove", position1 |-> position, position2 |-> NoPosition,
     member |-> NoMember, group_index |-> -1]
SwapAction(position1, position2) ==
    [kind |-> "Swap", position1 |-> position1, position2 |-> position2,
     member |-> NoMember, group_index |-> -1]
MoveAction(source_position, target_group) ==
    [kind |-> "Move", position1 |-> source_position, position2 |-> NoPosition,
     member |-> NoMember, group_index |-> target_group]
NoAction ==
    [kind |-> "None", position1 |-> NoPosition, position2 |-> NoPosition,
     member |-> NoMember, group_index |-> -1]

\* TableCache::create: one GroupCache per group, and the sum of calc_score
\* over the groups of the table.
TableCacheCreate(table, penalty) ==
    [groups        |-> [g \in DOMAIN table |-> GroupCacheCreate(table[g], penalty)],
     penalty_score |-> SumOver(DOMAIN table,
                           [g \in DOMAIN table |-> calc_score(table[g], penalty)])]

\* self.groups.get(index).is_some()
HasGroup(gs, index) == index >= 0 /\ index < Len(gs)

\* TableCache::get_member(position).is_some()
HasMember(gs, position) ==
    /\ HasGroup(gs, position.group_index)
    /\ position.member_index >= 0
    /\ position.member_index < Len(gs[position.group_index + 1].members)

\* TableCache::get_member(position), when it is Some
get_member(gs, position) ==
    gs[position.group_index + 1].members[position.member_index + 1]

\* Mutation of the Swap arm of simulate: the two simulate_swap results are
\* combined without first checking that both positions hold a member.
SimulateSwap_NoGuard(gs, position1, position2, cond) ==
    IF HasGroup(gs, position1.group_index) /\ HasGroup(gs, position2.group_index)
    THEN ResultAdd(
            simulate_swap(gs[position1.group_index + 1], position1.member_index,
                          IF HasMember(gs, position2)
                          THEN get_member(gs, position2) ELSE NoMember, cond),
            simulate_swap(gs[position2.group_index + 1], position2.member_index,
                          IF HasMember(gs, position1)
                          THEN get_member(gs, position1) ELSE NoMember, cond))
    ELSE Failed(<<InvalidPosition>>)

\* TableCache::simulate, Action::Swap arm
SimulateSwap(gs, position1, position2, cond) ==
    IF HasMember(gs, position1) /\ HasMember(gs, position2)
    THEN ResultAdd(
            simulate_swap(gs[position1.group_index + 1], position1.member_index,
                          get_member(gs, position2), cond),
            simulate_swap(gs[position2.group_index + 1], position2.member_index,
                          get_member(gs, position1), cond))
    ELSE Failed(<<InvalidPosition>>)

\* TableCache::simulate, Action::Move arm.  self.groups.get(*to).unwrap()
\* panics when the target group does not exist.
SimulateMove(gs, from, to, cond) ==
    IF HasMember(gs, from)
    THEN IF HasGroup(gs, to)
         THEN ResultAdd(
                 simulate_remove(gs[from.group_index + 1], from.member_index, cond),
                 simulate_add(gs[to + 1], get_member(gs, from), cond))
         ELSE Aborted
    ELSE Failed(<<InvalidPosition>>)

\* TableCache::simulate
TableSimulate(gs, action, cond) ==
    CASE action.kind = "Add" ->
            IF HasGroup(gs, action.group_index)
            THEN simulate_add(gs[action.group_index + 1], action.member, cond)
            ELSE Failed(<<InvalidPosition>>)
      [] action.kind = "Remove" ->
            IF HasGroup(gs, action.position1.group_index)
            THEN simulate_remove(gs[action.position1.group_index + 1],
                                 action.position1.member_index, cond)
            ELSE Failed(<<InvalidPosition>>)
      [] action.kind = "Swap" ->
            SimulateSwap(gs, action.position1, action.position2, cond)
      [] action.kind = "Move" ->
            SimulateMove(gs, action.position1, action.group_index, cond)

\* Result<Option<Member>, ActionError> of act together with the cache it leaves.
ActErr(gs, score) ==
    [groups |-> gs, penalty_score |-> score, ok |-> FALSE, member |-> NoMember]
ActOk(gs, score, member) ==
    [groups |-> gs, penalty_score |-> score, ok |-> TRUE, member |-> member]

\* TableCache::act, Action::Add arm
ActAdd(gs, score, group_index, member, cond) ==
    IF ~HasGroup(gs, group_index) THEN ActErr(gs, score)
    ELSE LET group      == gs[group_index + 1]
             prev_score == group.penalty_score
             added      == GroupCacheAdd(group, member, cond)
         IN  ActOk([gs EXCEPT ![group_index + 1] = added],
                   score + (added.penalty_score - prev_score),
                   NoMember)

\* Mutation of the Remove arm of act: the removed member is dropped and
\* Ok(None) is returned.
ActRemove_ReturnsNone(gs, score, position, cond) ==
    IF ~HasGroup(gs, position.group_index) THEN ActErr(gs, score)
    ELSE LET group      == gs[position.group_index + 1]
             prev_score == group.penalty_score
             removed    == GroupCacheRemove(group, position.member_index, cond)
         IN  IF ~removed.ok THEN ActErr(gs, score)
             ELSE ActOk([gs EXCEPT ![position.group_index + 1] = removed.group],
                        score - (removed.group.penalty_score - prev_score),
                        NoMember)

\* TableCache::act, Action::Remove arm:
\* self.penalty_score -= group.penalty_score - prev_score
ActRemove(gs, score, position, cond) ==
    IF ~HasGroup(gs, position.group_index) THEN ActErr(gs, score)
    ELSE LET group      == gs[position.group_index + 1]
             prev_score == group.penalty_score
             removed    == GroupCacheRemove(group, position.member_index, cond)
         IN  IF ~removed.ok THEN ActErr(gs, score)
             ELSE ActOk([gs EXCEPT ![position.group_index + 1] = removed.group],
                        score - (removed.group.penalty_score - prev_score),
                        removed.member)

\* Mutation of the Swap arm of act: the clone of the second member is
\* written to both positions.
ActSwap_ClonesIntoBoth(gs, score, position1, position2, cond) ==
    IF ~HasMember(gs, position2) THEN ActErr(gs, score)
    ELSE IF ~HasGroup(gs, position1.group_index) THEN ActErr(gs, score)
    ELSE LET member2_clone == get_member(gs, position2)
             group1   == gs[position1.group_index + 1]
             swapped1 == GroupCacheSwap(group1, position1.member_index, member2_clone, cond)
         IN  IF ~swapped1.ok THEN ActErr(gs, score)
             ELSE LET gs1      == [gs EXCEPT ![position1.group_index + 1] = swapped1.group]
                      diff1    == swapped1.group.penalty_score - group1.penalty_score
                      group2   == gs1[position2.group_index + 1]
                      swapped2 == GroupCacheSwap(group2, position2.member_index,
                                                 member2_clone, cond)
                  IN  IF ~swapped2.ok THEN ActErr(gs1, score)
                      ELSE ActOk([gs1 EXCEPT ![position2.group_index + 1] = swapped2.group],
                                 score + (diff1 - group2.penalty_score
                                                + swapped2.group.penalty_score),
                                 NoMember)

\* TableCache::act, Action::Swap arm
ActSwap(gs, score, position1, position2, cond) ==
    IF ~HasMember(gs, position2) THEN ActErr(gs, score)
    ELSE IF ~HasGroup(gs, position1.group_index) THEN ActErr(gs, score)
    ELSE LET member2_clone == get_member(gs, position2)
             group1   == gs[position1.group_index + 1]
             swapped1 == GroupCacheSwap(group1, position1.member_index, member2_clone, cond)
         IN  IF ~swapped1.ok THEN ActErr(gs, score)
             ELSE LET gs1      == [gs EXCEPT ![position1.group_index + 1] = swapped1.group]
                      diff1    == swapped1.group.penalty_score - group1.penalty_score
                      group2   == gs1[position2.group_index + 1]
                      swapped2 == GroupCacheSwap(group2, position2.member_index,
                                                 swapped1.member, cond)
                  IN  IF ~swapped2.ok THEN ActErr(gs1, score)
                      ELSE ActOk([gs1 EXCEPT ![position2.group_index + 1] = swapped2.group],
                                 score + (diff1 - group2.penalty_score
                                                + swapped2.group.penalty_score),
                                 NoMember)

\* TableCache::act, Action::Move arm.  The member has left its group when
\* the target group is looked up.
ActMove(gs, score, from, to, cond) ==
    IF ~HasGroup(gs, from.group_index) THEN ActErr(gs, score)
    ELSE LET group_from == gs[from.group_index + 1]
             removed    == GroupCacheRemove(group_from, from.member_index, cond)
         IN  IF ~removed.ok THEN ActErr(gs, score)
             ELSE LET gs1   == [gs EXCEPT ![from.group_index + 1] = removed.group]
                      diff1 == removed.group.penalty_score - group_from.penalty_score
                  IN  IF ~HasGroup(gs1, to) THEN ActErr(gs1, score)
                      ELSE LET group_to == gs1[to + 1]
                               added    == GroupCacheAdd(group_to, removed.member, cond)
                           IN  ActOk([gs1 EXCEPT ![to + 1] = added],
                                     score + (diff1 - group_to.penalty_score
                                                    + added.penalty_score),
                                     NoMember)

\* TableCache::act
TableAct(gs, score, action, cond) ==
    CASE action.kind = "Add" ->
            ActAdd(gs, score, action.group_index, action.member, cond)
      [] action.kind = "Remove" ->
            ActRemove(gs, score, action.position1, cond)
      [] action.kind = "Swap" ->
            ActSwap(gs, score, action.position1, action.position2, cond)
      [] action.kind = "Move" ->
            ActMove(gs, score, action.position1, action.group_index, cond)

\* ------------------------------------------------------------ the machine
\* Initial tables, shaped like the table fixture of the tests: all members
\* in id order, cut into NGroups consecutive groups of near-equal size.
InitTables ==
    LET TableOf(k) == [g \in 1..NGroups |->
                          SelectSeq([i \in 1..k |-> Member(i - 1)],
                                    LAMBDA m : /\ ((g - 1) * k) \div NGroups <= m.id
                                               /\ m.id < (g * k) \div NGroups)]
    IN  {TableOf(NMembers)}

\* Operands of ActionResult::add.
Operands ==
    {ScoreDiff(s) : s \in (-MaxScore)..MaxScore}
    \cup {UnsatisfiedScoreDiff(s) : s \in (-MaxScore)..MaxScore}
    \cup {Failed([k \in 1..n |-> InvalidPosition]) : n \in 1..MaxErrs}

\* No GroupCache of anneal.rs has been created.
NoCached == [members |-> <<>>, tagcounts |-> <<>>, penalty_score |-> 0,
             aborted |-> FALSE]

\* No function is being called on its own.
NoArgs == [fn |-> "none"]
NoReturn == [fn |-> "none"]

NoCall == [op |-> "create", action |-> NoAction, result |-> NoResult,
           ok |-> TRUE, member |-> NoMember]

Init ==
    /\ \E table \in InitTables, cond \in Conditions :
          LET cache == TableCacheCreate(table, cond.penalty)
          IN  /\ groups = cache.groups
              /\ penalty_score = cache.penalty_score
              /\ condition = cond
              /\ pre = [groups |-> cache.groups, penalty_score |-> cache.penalty_score]
    /\ last = NoCall
    /\ nActs = 0
    /\ lhs = NoResult /\ rhs = NoResult /\ sum = NoResult
    /\ args = NoArgs /\ ret = NoReturn
    /\ pc = "idle" /\ candidate = NoAction /\ n_iterations = 0 /\ temperature = 0
    /\ pool = {} /\ drawn = <<>> /\ cached = NoCached

\* Positions a caller may name: every member of the table, the member index
\* just past the end of the first group, and the group index just past the
\* end of the table.
CallPositions ==
    UNION {{Position(g - 1, m - 1) : m \in DOMAIN groups[g].members} : g \in DOMAIN groups}
    \cup {Position(0, Len(groups[1].members)), Position(Len(groups), 0)}

\* Members that are in no group of the table (fresh ids for Add).
FreshMembers ==
    {m \in Members : \A g \in DOMAIN groups : m.id \notin get_ids(groups[g])}

CallActions ==
    {AddAction(m, g) : m \in FreshMembers, g \in 0..NGroups}
    \cup {RemoveAction(pos) : pos \in CallPositions}
    \cup {SwapAction(p1, p2) : p1 \in CallPositions, p2 \in CallPositions}
    \cup {MoveAction(pos, g) : pos \in CallPositions, g \in 0..NGroups}

\* Mutation of a call of simulate: the projected tag counts of simulate_add
\* are stored into the group instead of a local.
Simulate_StoresTagcounts(action) ==
    /\ last' = [op |-> "simulate", action |-> action,
                result |-> TableSimulate(groups, action, condition),
                ok |-> TRUE, member |-> NoMember]
    /\ groups' = IF action.kind = "Add" /\ HasGroup(groups, action.group_index)
                 THEN [groups EXCEPT ![action.group_index + 1].tagcounts =
                          TagCounterAdd(@, MemberTagCounter(action.member))]
                 ELSE groups
    /\ pre' = [groups |-> groups, penalty_score |-> penalty_score]
    /\ UNCHANGED <<penalty_score, condition, nActs, lhs, rhs, sum>>

\* Mutation of a call of simulate: the action is evaluated by applying it
\* to the cache, and the cache is not put back.
Simulate_CommitsCandidate(action) ==
    /\ last' = [op |-> "simulate", action |-> action,
                result |-> TableSimulate(groups, action, condition),
                ok |-> TRUE, member |-> NoMember]
    /\ \E r \in {TableAct(groups, penalty_score, action, condition)} :
           groups' = r.groups /\ penalty_score' = r.penalty_score
    /\ pre' = [groups |-> groups, penalty_score |-> penalty_score]
    /\ UNCHANGED <<condition, nActs, lhs, rhs, sum>>

\* A call of TableCache::simulate(&self, ..): the result is returned, the
\* cache is only read.
Simulate(action) ==
    /\ last' = [op |-> "simulate", action |-> action,
                result |-> TableSimulate(groups, action, condition),
                ok |-> TRUE, member |-> NoMember]
    /\ pre' = [groups |-> groups, penalty_score |-> penalty_score]
    /\ UNCHANGED <<groups, penalty_score, condition, nActs, lhs, rhs, sum>>

\* A call of TableCache::act(&mut self, ..).
Act(action) ==
    /\ nActs < MaxActs
    /\ \E r \in {TableAct(groups, penalty_score, action, condition)} :
           /\ groups' = r.groups
           /\ penalty_score' = r.penalty_score
           /\ last' = [op |-> "act", action |-> action, result |-> NoResult,
                       ok |-> r.ok, member |-> r.member]
    /\ pre' = [groups |-> groups, penalty_score |-> penalty_score]
    /\ nActs' = nActs + 1
    /\ UNCHANGED <<condition, lhs, rhs, sum>>

\* The calls a run makes.  simulate only reads the cache, so a candidate
\* that has been simulated is either simulated again or committed with act
\* (the cycle of the search); any other call is made on the cache as act or
\* create left it.
Candidates ==
    IF last.op = "simulate" THEN {last.action} ELSE CallActions

SimulateCall ==
    /\ \E action \in Candidates : Simulate(action)
    /\ UNCHANGED <<fnVars, driverVars, auxVars>>
ActCall ==
    /\ \E action \in Candidates : Act(action)
    /\ UNCHANGED <<fnVars, driverVars, auxVars>>

Next == SimulateCall \/ ActCall

Spec == Init /\ [][Next]_vars

\* The same calls on a table whose groups all pass Constraint.check when
\* the run starts.
InitFeasible ==
    /\ \E table \in InitTables, cond \in FeasibleConditions :
          LET cache == TableCacheCreate(table, cond.penalty)
          IN  /\ groups = cache.groups
              /\ penalty_score = cache.penalty_score
              /\ condition = cond
              /\ pre = [groups |-> cache.groups, penalty_score |-> cache.penalty_score]
    /\ last = NoCall
    /\ nActs = 0
    /\ lhs = NoResult /\ rhs = NoResult /\ sum = NoResult
    /\ args = NoArgs /\ ret = NoReturn
    /\ pc = "idle" /\ candidate = NoAction /\ n_iterations = 0 /\ temperature = 0
    /\ pool = {} /\ drawn = <<>> /\ cached = NoCached

SpecFeasible == InitFeasible /\ [][Next]_vars

\* ------------------------------------- the ActionResult operator on its own
InitAdd ==
    /\ LET cache == TableCacheCreate([g \in 1..NGroups |-> <<>>],
                                     [scores |-> ChainScores, default |-> 0])
       IN  /\ groups = cache.groups
           /\ penalty_score = cache.penalty_score
           /\ pre = [groups |-> cache.groups, penalty_score |-> cache.penalty_score]
    /\ condition \in Conditions
    /\ last = NoCall
    /\ nActs = 0
    /\ lhs \in Operands
    /\ rhs \in Operands
    /\ sum = NoResult
    /\ args = NoArgs /\ ret = NoReturn
    /\ pc = "idle" /\ candidate = NoAction /\ n_iterations = 0 /\ temperature = 0
    /\ pool = {} /\ drawn = <<>> /\ cached = NoCached

\* One evaluation of lhs + rhs.
Combine ==
    /\ sum = NoResult
    /\ sum' = ResultAdd(lhs, rhs)
    /\ UNCHANGED <<groups, penalty_score, condition, last, pre, nActs, lhs, rhs>>
    /\ UNCHANGED <<fnVars, driverVars, auxVars>>

NextAdd == Combine

SpecAdd == InitAdd /\ [][NextAdd]_vars

\* ------------------- the functions of model.rs and create on their own
\* RelationPenalty::new(default): no stored pair.
NewPenalty(default) == [scores |-> [key \in {} |-> 0], default |-> default]

Penalties ==
    {[scores |-> ChainScores, default |-> d] : d \in 0..1}
    \cup {NewPenalty(d) : d \in 0..1}

\* The ranges a tag may be given: the Count {min: 1, max: 2} of the tests,
\* and the Ratio ranges {min: 0.0, max: 0.5} and {min: 0.5, max: 1.0}.
Ranges == {CountRange(1, 2), RatioRange(0, 1, 2), RatioRange(1, 2, 2)}

\* Arguments of Constraint.check: a constraint on some of the tags a and b,
\* a tag counter over some of the tags, and a member count.
CheckArgs ==
    {[fn |-> "check", constraint |-> c, tagcounts |-> t, n_members |-> n] :
        c \in UNION {[S -> Ranges] : S \in SUBSET {"a", "b"}},
        t \in UNION {[S -> 0..NMembers] : S \in SUBSET Tags},
        n \in 0..NMembers}

\* Arguments of RelationPenalty.get_pair.
PairArgs ==
    {[fn |-> "get_pair", penalty |-> p, ids |-> <<a, b>>] :
        p \in Penalties, a \in 0..NMembers, b \in 0..NMembers}

\* The table and condition fixtures of the tests.
FixtureTable ==
    << <<[id |-> 0, tags |-> {"a"}], [id |-> 1, tags |-> {"b"}],
         [id |-> 2, tags |-> {"c"}]>>,
       <<[id |-> 3, tags |-> {"a", "b"}], [id |-> 4, tags |-> {"a", "c"}],
         [id |-> 5, tags |-> {"b", "c"}]>> >>
FixturePenalty ==
    [scores  |-> [key \in {{i, i + 1} : i \in 0..5} |->
                     (CHOOSE j \in key : \A k \in key : j >= k)],
     default |-> 0]

\* Tables of NGroups groups (empty groups included): the members in any
\* order, cut into consecutive groups at any places.
CreateTables ==
    LET Orders == {o \in [1..NMembers -> Ids] :
                      \A i, j \in 1..NMembers : o[i] = o[j] => i = j}
        Cuts   == {c \in [0..NGroups -> 0..NMembers] :
                      /\ c[0] = 0 /\ c[NGroups] = NMembers
                      /\ \A g \in 1..NGroups : c[g - 1] <= c[g]}
    IN  {[g \in 1..NGroups |->
            [k \in 1..(c[g] - c[g - 1]) |-> Member(o[c[g - 1] + k])]] :
         o \in Orders, c \in Cuts}

\* Arguments of TableCache::create.
CreateArgs ==
    {[fn |-> "create", table |-> t, penalty |-> p] :
        t \in CreateTables, p \in Penalties}
    \cup {[fn |-> "create", table |-> FixtureTable, penalty |-> FixturePenalty]}

\* Arguments of GroupCache::swap: a group cache created from any members in
\* any order, an index (the one past the end included) and any member.
SwapArgs ==
    {[fn |-> "swap", group |-> GroupCacheCreate(t[g], c.penalty), index |-> i,
      member |-> m, cond |-> c] :
        t \in CreateTables, g \in 1..NGroups, i \in 0..NMembers,
        m \in Members, c \in Conditions}

InitFn ==
    /\ LET cache == TableCacheCreate([g \in 1..NGroups |-> <<>>], NewPenalty(0))
       IN  /\ groups = cache.groups
           /\ penalty_score = cache.penalty_score
           /\ pre = [groups |-> cache.groups, penalty_score |-> cache.penalty_score]
    /\ condition \in Conditions
    /\ last = NoCall
    /\ nActs = 0
    /\ lhs = NoResult /\ rhs = NoResult /\ sum = NoResult
    /\ args \in CheckArgs \cup PairArgs \cup CreateArgs \cup SwapArgs
    /\ ret = NoReturn
    /\ pc = "idle" /\ candidate = NoAction /\ n_iterations = 0 /\ temperature = 0
    /\ pool = {} /\ drawn = <<>> /\ cached = NoCached

\* One call of Constraint.check: Ok(()) or Err(the violated tags).
Check ==
    /\ args.fn = "check" /\ ret = NoReturn
    /\ \E error_tags \in {ConstraintCheck(args.constraint, args.tagcounts,
                                           args.n_members)} :
          ret' = [fn |-> "check", ok |-> error_tags = {}, err |-> error_tags]
    /\ UNCHANGED <<groups, penalty_score, condition, last, pre, nActs,
                   lhs, rhs, sum, args, driverVars, auxVars>>

\* One call of get_pair with the two ids in each of the two orders.
GetPair ==
    /\ args.fn = "get_pair" /\ ret = NoReturn
    /\ ret' = [fn |-> "get_pair",
               ab |-> get_pair(args.penalty, args.ids[1], args.ids[2]),
               ba |-> get_pair(args.penalty, args.ids[2], args.ids[1])]
    /\ UNCHANGED <<groups, penalty_score, condition, last, pre, nActs,
                   lhs, rhs, sum, args, driverVars, auxVars>>

\* One call of TableCache::create.
Create ==
    /\ args.fn = "create" /\ ret = NoReturn
    /\ ret' = [fn |-> "create", cache |-> TableCacheCreate(args.table, args.penalty)]
    /\ UNCHANGED <<groups, penalty_score, condition, last, pre, nActs,
                   lhs, rhs, sum, args, driverVars, auxVars>>

\* One call of GroupCache::swap.
SwapMember ==
    /\ args.fn = "swap" /\ ret = NoReturn
    /\ ret' = [fn |-> "swap",
               result |-> GroupCacheSwap(args.group, args.index, args.member, args.cond)]
    /\ UNCHANGED <<groups, penalty_score, condition, last, pre, nActs,
                   lhs, rhs, sum, args, driverVars, auxVars>>

NextFn == Check \/ GetPair \/ Create \/ SwapMember

SpecFn == InitFn /\ [][NextFn]_vars

\* ------------------------------------------------- the annealing driver
\* Params.max_iterations.  An iteration commits at most one act.
max_iterations == MaxActs

\* The candidates the generator hands to the loop: Swaps of two positions
\* of different groups.  Positions that no longer resolve are among them
\* (the Failed path of the loop).
GeneratorSwaps ==
    {swap \in {SwapAction(p1, p2) : p1 \in CallPositions, p2 \in CallPositions} :
        swap.position1.group_index # swap.position2.group_index}

InitDriver ==
    /\ \E table \in InitTables, cond \in Conditions :
          LET cache == TableCacheCreate(table, cond.penalty)
          IN  /\ groups = cache.groups
              /\ penalty_score = cache.penalty_score
              /\ condition = cond
              /\ pre = [groups |-> cache.groups, penalty_score |-> cache.penalty_score]
    /\ last = NoCall
    /\ nActs = 0
    /\ lhs = NoResult /\ rhs = NoResult /\ sum = NoResult
    /\ args = NoArgs /\ ret = NoReturn
    /\ pc = "draw" /\ candidate = NoAction /\ n_iterations = 0 /\ temperature = 0
    /\ pool = {} /\ drawn = <<>> /\ cached = NoCached

\* Step 1: draw the next candidate Swap from the generator.
Draw ==
    /\ pc = "draw" /\ n_iterations < max_iterations
    /\ candidate' \in GeneratorSwaps
    /\ pc' = "simulate"
    /\ UNCHANGED <<groups, penalty_score, condition, last, pre, nActs,
                   lhs, rhs, sum, fnVars, auxVars, n_iterations, temperature>>

\* A draw of a candidate whose two positions resolve.
DrawValid ==
    /\ Draw
    /\ HasMember(groups, candidate'.position1)
    /\ HasMember(groups, candidate'.position2)

\* Step 2: evaluate the candidate with TableCache.simulate.
Evaluate ==
    /\ pc = "simulate"
    /\ Simulate(candidate)
    /\ pc' = "decide"
    /\ UNCHANGED <<fnVars, auxVars, candidate, n_iterations, temperature>>

\* Step 3, Failed: reject and redraw; the iteration is not counted.
Redraw ==
    /\ pc = "decide" /\ last.result.kind = "Failed"
    /\ pc' = "draw"
    /\ UNCHANGED <<groups, penalty_score, condition, last, pre, nActs,
                   lhs, rhs, sum, fnVars, auxVars, candidate, n_iterations, temperature>>

\* Step 3, accept: always open to a non-Failed candidate (unconditional for
\* ScoreDiff(d), d <= 0; the draw of the Metropolis criterion otherwise).
Accept ==
    /\ pc = "decide"
    /\ last.result.kind \in {"ScoreDiff", "UnsatisfiedScoreDiff"}
    /\ pc' = "commit"
    /\ UNCHANGED <<groups, penalty_score, condition, last, pre, nActs,
                   lhs, rhs, sum, fnVars, auxVars, candidate, n_iterations, temperature>>

\* Step 3, reject: the draw of the Metropolis criterion went against a
\* ScoreDiff(d), d > 0, or an UnsatisfiedScoreDiff.
Reject ==
    /\ pc = "decide"
    /\ \/ last.result.kind = "ScoreDiff" /\ last.result.score > 0
       \/ last.result.kind = "UnsatisfiedScoreDiff"
    /\ pc' = "cool"
    /\ UNCHANGED <<groups, penalty_score, condition, last, pre, nActs,
                   lhs, rhs, sum, fnVars, auxVars, candidate, n_iterations, temperature>>

\* Step 4: commit the accepted candidate with TableCache.act; an
\* InvalidPosition from act is propagated and ends the run.
Commit ==
    /\ pc = "commit"
    /\ Act(candidate)
    /\ pc' = IF last'.ok THEN "cool" ELSE "error"
    /\ UNCHANGED <<fnVars, auxVars, candidate, n_iterations, temperature>>

\* Step 5: temperature *= cooling_rate; n_iterations += 1.
Cool ==
    /\ pc = "cool"
    /\ temperature' = temperature + 1
    /\ n_iterations' = n_iterations + 1
    /\ pc' = "draw"
    /\ UNCHANGED <<groups, penalty_score, condition, last, pre, nActs,
                   lhs, rhs, sum, fnVars, auxVars, candidate>>

\* Step 5: stop at max_iterations.
Stop ==
    /\ pc = "draw" /\ n_iterations >= max_iterations
    /\ pc' = "done"
    /\ UNCHANGED <<groups, penalty_score, condition, last, pre, nActs,
                   lhs, rhs, sum, fnVars, auxVars, candidate, n_iterations, temperature>>

NextDriver ==
    Draw \/ Evaluate \/ Redraw \/ Accept \/ Reject \/ Commit \/ Cool \/ Stop

\* The loop leaves the position where it calls simulate, and the position
\* where it calls act, when the call returns.
EvaluateReturns == pc = "simulate" /\ pc' = "decide"
CommitReturns == pc = "commit" /\ pc' \in {"cool", "error"}

\* The loop is a sequential program: it takes its next step when it has
\* one, and simulate and act return.  The generator eventually emits a
\* candidate whose positions resolve.
SpecDriver ==
    /\ InitDriver /\ [][NextDriver]_vars
    /\ WF_pc(Draw \/ Stop)
    /\ WF_pc(EvaluateReturns)
    /\ WF_pc(Redraw \/ Accept \/ Reject)
    /\ WF_pc(CommitReturns)
    /\ WF_pc(Cool)
    /\ SF_pc(DrawValid)

\* ------------------------------------------------- the swap generator
\* The positions of every member of a table, flattened.
GeneratorPositions(gs) ==
    UNION {{Position(g - 1, k - 1) : k \in DOMAIN gs[g].members} : g \in DOMAIN gs}

\* A generator that emits whatever pair it draws.
IsCrossGroup_AnyPair(position1, position2) == TRUE

\* Whether two drawn positions make a candidate: they lie in different groups.
IsCrossGroup(position1, position2) ==
    position1.group_index # position2.group_index

\* The tables a generator can be constructed from: at least two groups,
\* each non-empty.
GeneratorTables ==
    {t \in CreateTables : NGroups >= 2 /\ \A g \in DOMAIN t : Len(t[g]) > 0}

\* Construction: the positions of the table are flattened and shuffled.  The
\* pool is the part of the shuffled sweep not yet drawn; the order of the
\* shuffle is the order in which the draws pick from it.
InitGenerator ==
    /\ \E table \in GeneratorTables, cond \in Conditions :
          LET cache == TableCacheCreate(table, cond.penalty)
          IN  /\ groups = cache.groups
              /\ penalty_score = cache.penalty_score
              /\ condition = cond
              /\ pre = [groups |-> cache.groups, penalty_score |-> cache.penalty_score]
    /\ last = NoCall
    /\ nActs = 0
    /\ lhs = NoResult /\ rhs = NoResult /\ sum = NoResult
    /\ args = NoArgs /\ ret = NoReturn
    /\ pc = "first" /\ candidate = NoAction /\ n_iterations = 0 /\ temperature = 0
    /\ pool = GeneratorPositions(groups) /\ drawn = <<>> /\ cached = NoCached

generatorFrame ==
    <<groups, penalty_score, condition, last, pre, nActs, lhs, rhs, sum,
      fnVars, n_iterations, temperature, cached>>

\* The pool is empty when a position is to be drawn: a fresh full sweep is
\* shuffled, and the draw continues.
Reshuffle ==
    /\ pc \in {"first", "second"} /\ pool = {}
    /\ pool' = GeneratorPositions(groups)
    /\ UNCHANGED <<pc, candidate, drawn, generatorFrame>>

\* The first position of a pair is drawn.
DrawFirst ==
    /\ pc = "first"
    /\ \E position \in pool :
          /\ pool' = pool \ {position}
          /\ drawn' = <<position>>
    /\ pc' = "second"
    /\ UNCHANGED <<candidate, generatorFrame>>

\* The second position is drawn and lies in the group of the first: the pair
\* is dropped and two positions are drawn again.
RedrawPair ==
    /\ pc = "second"
    /\ \E position \in pool :
          /\ ~IsCrossGroup(drawn[1], position)
          /\ pool' = pool \ {position}
    /\ drawn' = <<>>
    /\ pc' = "first"
    /\ UNCHANGED <<candidate, generatorFrame>>

\* The second position is drawn and lies in another group: the Swap of the
\* two is the next candidate of the stream.
Emit ==
    /\ pc = "second"
    /\ \E position \in pool :
          /\ IsCrossGroup(drawn[1], position)
          /\ pool' = pool \ {position}
          /\ candidate' = SwapAction(drawn[1], position)
    /\ drawn' = <<>>
    /\ pc' = "emitted"
    /\ UNCHANGED generatorFrame

\* The consumer asks for the next candidate.
NextCandidate ==
    /\ pc = "emitted"
    /\ pc' = "first"
    /\ UNCHANGED <<candidate, pool, drawn, generatorFrame>>

NextGenerator == Reshuffle \/ DrawFirst \/ RedrawPair \/ Emit \/ NextCandidate

generatorVars == <<pc, candidate, pool, drawn>>

\* The generator is a sequential program that takes its next step when it
\* has one.  A uniform shuffle draws a pair of different groups sooner or
\* later.
SpecGenerator ==
    /\ InitGenerator /\ [][NextGenerator]_vars
    /\ WF_generatorVars(Reshuffle)
    /\ WF_generatorVars(DrawFirst)
    /\ WF_generatorVars(RedrawPair \/ Emit)
    /\ WF_generatorVars(NextCandidate)
    /\ SF_generatorVars(Emit)

\* ------------------------------------------- the GroupCache of anneal.rs
\* CachedMember::create: the pair penalties of the member at the index with
\* the other members of the group, and their sum.
CachedMemberCreate(members, index, penalty) ==
    LET member == members[index + 1]
        others == {members[k].id : k \in DOMAIN members} \ {member.id}
        map    == [id \in others |-> get_pair(penalty, member.id, id)]
    IN  [member |-> member, penalty |-> map, score |-> SumOver(others, map)]

\* CachedMember::from_ids
from_ids(member, ids, penalty) ==
    LET map == [id \in ids |-> get_pair(penalty, member.id, id)]
    IN  [member |-> member, penalty |-> map, score |-> SumOver(ids, map)]

\* CachedMember::snoop_add: the pair penalty with the id is inserted in the
\* map (replacing an entry of that id) and added to the running score.
snoop_add(self, id, penalty) ==
    LET score == get_pair(penalty, self.member.id, id)
    IN  [member  |-> self.member,
         penalty |-> [i \in (DOMAIN self.penalty) \cup {id} |->
                         IF i = id THEN score ELSE self.penalty[i]],
         score   |-> self.score + score]

\* CachedMember::snoop_remove: the entry of the id leaves the map and its
\* value (0 when there is none) leaves the running score.
snoop_remove(self, id) ==
    LET score == IF id \in DOMAIN self.penalty THEN self.penalty[id] ELSE 0
    IN  [member  |-> self.member,
         penalty |-> [i \in (DOMAIN self.penalty) \ {id} |-> self.penalty[i]],
         score   |-> self.score - score]

\* GroupCache::create of anneal.rs
CachedGroupCreate(members, penalty) ==
    [members       |-> [k \in DOMAIN members |->
                          CachedMemberCreate(members, k - 1, penalty)],
     tagcounts     |-> TagCounterFrom(
                          FlatMap(members, [m \in {members[k] : k \in DOMAIN members}
                                               |-> SetToVec(m.tags)])),
     penalty_score |-> calc_score(members, penalty),
     aborted       |-> FALSE]

\* GroupCache::get_ids of anneal.rs
cached_get_ids(group) == {group.members[k].member.id : k \in DOMAIN group.members}

\* GroupCache::add of anneal.rs.  Every cached member snoops its own id;
\* penalty_score is not assigned.
CachedGroupAdd(group, member, cond) ==
    LET snooped == [k \in DOMAIN group.members |->
                      snoop_add(group.members[k], group.members[k].member.id,
                                cond.penalty)]
        ids     == cached_get_ids(group)
    IN  [ok    |-> TRUE,
         member |-> NoMember,
         group |-> [members       |-> Append(snooped, from_ids(member, ids, cond.penalty)),
                    tagcounts     |-> TagCounterAdd(group.tagcounts, MemberTagCounter(member)),
                    penalty_score |-> group.penalty_score,
                    aborted       |-> FALSE]]

\* GroupCache::remove of anneal.rs.  Vec::remove(index) runs twice: the
\* second call takes out the member that followed, or panics when the index
\* is now past the end.  penalty_score is not assigned.
CachedGroupRemove(group, index) ==
    IF Len(group.members) <= index
    THEN [ok |-> FALSE, member |-> NoMember, group |-> group]
    ELSE LET member  == group.members[index + 1]
             rest    == VecRemove(group.members, index)
             snooped == [k \in DOMAIN rest |-> snoop_remove(rest[k], member.member.id)]
             counted == TagCounterSub(group.tagcounts, MemberTagCounter(member.member))
         IN  IF Len(snooped) <= index
             THEN [ok     |-> FALSE,
                   member |-> NoMember,
                   group  |-> [members       |-> snooped,
                               tagcounts     |-> counted,
                               penalty_score |-> group.penalty_score,
                               aborted       |-> TRUE]]
             ELSE [ok     |-> TRUE,
                   member |-> member.member,
                   group  |-> [members       |-> VecRemove(snooped, index),
                               tagcounts     |-> counted,
                               penalty_score |-> group.penalty_score,
                               aborted       |-> FALSE]]

\* GroupCache::swap of anneal.rs.  penalty_score is not assigned.
CachedGroupSwap(group, index, member, cond) ==
    IF Len(group.members) <= index
    THEN [ok |-> FALSE, member |-> NoMember, group |-> group]
    ELSE LET removed_member == group.members[index + 1]
             rest    == VecRemove(group.members, index)
             snooped == [k \in DOMAIN rest |->
                           snoop_add(snoop_remove(rest[k], removed_member.member.id),
                                     member.id, cond.penalty)]
             ids     == {rest[k].member.id : k \in DOMAIN rest}
         IN  [ok     |-> TRUE,
              member |-> removed_member.member,
              group  |-> [members       |-> VecInsert(snooped, index,
                                                from_ids(member, ids, cond.penalty)),
                          tagcounts     |-> TagCounterSub(
                                                TagCounterAdd(group.tagcounts,
                                                              MemberTagCounter(member)),
                                                MemberTagCounter(removed_member.member)),
                          penalty_score |-> group.penalty_score,
                          aborted       |-> FALSE]]

\* GroupAction: Add(Member), Remove(Index), Replace(Index, Member)
GroupActionAdd(member) == [fn |-> "add", index |-> -1, member |-> member]
GroupActionRemove(index) == [fn |-> "remove", index |-> index, member |-> NoMember]
GroupActionReplace(index, member) == [fn |-> "swap", index |-> index, member |-> member]

\* A group cache is created from any members in any order.
InitCached ==
    /\ LET cache == TableCacheCreate([g \in 1..NGroups |-> <<>>], NewPenalty(0))
       IN  /\ groups = cache.groups
           /\ penalty_score = cache.penalty_score
           /\ pre = [groups |-> cache.groups, penalty_score |-> cache.penalty_score]
    /\ condition \in Conditions
    /\ last = NoCall
    /\ nActs = 0
    /\ lhs = NoResult /\ rhs = NoResult /\ sum = NoResult
    /\ args = NoArgs /\ ret = NoReturn
    /\ pc = "idle" /\ candidate = NoAction /\ n_iterations = 0 /\ temperature = 0
    /\ pool = {} /\ drawn = <<>>
    /\ \E t \in CreateTables, g \in 1..NGroups :
          cached = CachedGroupCreate(t[g], condition.penalty)

cachedFrame ==
    <<groups, penalty_score, condition, last, pre, lhs, rhs, sum, driverVars,
      pool, drawn>>

\* The members that are not in the cached group.
CachedFresh == {m \in Members : m.id \notin cached_get_ids(cached)}

\* One call on the cached group: its outcome is kept, and a panic ends the
\* run.
CachedCall(call, r) ==
    /\ nActs < MaxActs /\ ~cached.aborted
    /\ cached' = r.group
    /\ args' = call
    /\ ret' = [fn |-> call.fn, ok |-> r.ok, member |-> r.member]
    /\ nActs' = nActs + 1
    /\ UNCHANGED cachedFrame

CachedAdd ==
    \E member \in CachedFresh :
       CachedCall(GroupActionAdd(member), CachedGroupAdd(cached, member, condition))

CachedRemove ==
    \E index \in 0..Len(cached.members) :
       CachedCall(GroupActionRemove(index), CachedGroupRemove(cached, index))

CachedSwap ==
    \E index \in 0..Len(cached.members), member \in CachedFresh :
       CachedCall(GroupActionReplace(index, member),
                  CachedGroupSwap(cached, index, member, condition))

NextCached == CachedAdd \/ CachedRemove \/ CachedSwap

SpecCached == InitCached /\ [][NextCached]_vars

\* ================================================================ claims
\* Number of current members of a group that carry a tag.
Tally(group, tag) ==
    Cardinality({k \in DOMAIN group.members : tag \in group.members[k].tags})

ActSucceeded == last.op = "act" /\ last.ok
NonFailed(result) == result.kind \in {"ScoreDiff", "UnsatisfiedScoreDiff"}

\* C1: after any sequence of act calls on a table of pairwise distinct ids,
\* every group's penalty_score is the from-scratch sum of get_pair over the
\* unordered pairs of its current members.
C1_GroupScoreFromScratch ==
    \A g \in DOMAIN groups :
        groups[g].penalty_score = calc_score(groups[g].members, condition.penalty)

\* C1 witness: a second successful act, a Swap, has left a group of two
\* members with a non-zero score.
C1_Witness ==
    /\ ActSucceeded /\ last.action.kind = "Swap" /\ nActs = 2
    /\ last.action.position1.group_index # last.action.position2.group_index
    /\ \E g \in DOMAIN groups :
          Len(groups[g].members) >= 2 /\ groups[g].penalty_score # 0

\* C2: the table's penalty_score is the sum of its groups' penalty_scores
\* in every state reachable by act calls.
C2_TableScoreIsSum ==
    penalty_score = SumOver(DOMAIN groups,
                            [g \in DOMAIN groups |-> groups[g].penalty_score])

\* C3: for every group and tag, the recorded count (absent = 0) is the
\* number of current members carrying the tag.
C3_TagcountsAreTally ==
    \A g \in DOMAIN groups : \A tag \in Tags :
        TagCount(groups[g].tagcounts, tag) = Tally(groups[g], tag)

\* C3 witness: a successful Remove has taken the last carrier of a tag out
\* of a group that still has members; the tag keeps an entry with count 0.
C3_Witness ==
    /\ ActSucceeded /\ last.action.kind = "Remove"
    /\ \E g \in DOMAIN groups : \E tag \in DOMAIN groups[g].tagcounts :
          /\ groups[g].tagcounts[tag] = 0
          /\ Len(groups[g].members) >= 1

\* C4: when simulate(a) returns ScoreDiff(d) or UnsatisfiedScoreDiff(d),
\* act(a) called next changes the table's penalty_score by exactly d.
C4_ActRealizesSimulated ==
    [][(last'.op = "act" /\ nActs' = nActs + 1
        /\ NonFailed(TableSimulate(groups, last'.action, condition)))
       => penalty_score' - penalty_score
            = TableSimulate(groups, last'.action, condition).score]_vars

NamesBadIndex(gs, action) ==
    CASE action.kind = "Add"    -> ~HasGroup(gs, action.group_index)
      [] action.kind = "Remove" -> ~HasMember(gs, action.position1)
      [] action.kind = "Swap"   -> ~HasMember(gs, action.position1)
                                   \/ ~HasMember(gs, action.position2)
      [] action.kind = "Move"   -> ~HasMember(gs, action.position1)
      [] OTHER -> FALSE

\* Every index of the action is in range (the target group of Move included).
AllIndicesInRange(gs, action) ==
    CASE action.kind = "Add"    -> HasGroup(gs, action.group_index)
      [] action.kind = "Remove" -> HasMember(gs, action.position1)
      [] action.kind = "Swap"   -> HasMember(gs, action.position1)
                                   /\ HasMember(gs, action.position2)
      [] action.kind = "Move"   -> HasMember(gs, action.position1)
                                   /\ HasGroup(gs, action.group_index)
      [] OTHER -> FALSE

\* C6: simulate returns exactly Failed([InvalidPosition]) when the action
\* names an out-of-range group or member index, and a non-Failed result when
\* all its indices are in range.
C6_SimulateFailsOnBadIndex ==
    last.op = "simulate"
    => /\ NamesBadIndex(pre.groups, last.action)
            => last.result = Failed(<<InvalidPosition>>)
       /\ AllIndicesInRange(pre.groups, last.action) => NonFailed(last.result)

\* C6 witness: simulate of a Swap with one position valid and the other out
\* of range has returned Failed.
C6_Witness ==
    /\ last.op = "simulate" /\ last.action.kind = "Swap"
    /\ HasMember(pre.groups, last.action.position1)
    /\ ~HasMember(pre.groups, last.action.position2)
    /\ last.result.kind = "Failed"

\* C7: whenever act returns Err(InvalidPosition) the TableCache is exactly
\* as it was before the call.
C7_FailedActChangesNothing ==
    [][(last'.op = "act" /\ nActs' = nActs + 1 /\ ~last'.ok)
       => groups' = groups /\ penalty_score' = penalty_score]_vars

\* C8 as stated: a successful act returns Some(displaced member) for Remove
\* and for Move, and None for Add and for Swap.
C8_SomeForRemoveAndMove ==
    ActSucceeded
    => /\ last.action.kind \in {"Remove", "Move"}
            => last.member = get_member(pre.groups, last.action.position1)
       /\ last.action.kind \in {"Add", "Swap"} => last.member = NoMember

\* C8 as amended: a successful act returns Some(member) carrying the removed
\* member for Remove only, and None for Add, for Swap and for Move.
C8_SomeForRemoveOnly ==
    ActSucceeded
    => /\ last.action.kind = "Remove"
            => last.member = get_member(pre.groups, last.action.position1)
       /\ last.action.kind \in {"Add", "Swap", "Move"} => last.member = NoMember

\* C8 witness: a successful Move between two groups has returned None, and a
\* member has changed groups.
C8_Witness ==
    /\ ActSucceeded /\ last.action.kind = "Move"
    /\ last.action.group_index # last.action.position1.group_index
    /\ last.member = NoMember
    /\ groups # pre.groups

\* C9: act(Remove(pos)) returning M followed at once by
\* act(Add{member: M, group_index: pos.group_index}) restores the group's
\* penalty_score, the table's penalty_score and the group's per-tag counts.
C9_RemoveThenAddRestores ==
    [][(/\ ActSucceeded /\ last.action.kind = "Remove"
        /\ nActs' = nActs + 1
        /\ last'.op = "act" /\ last'.ok
        /\ last'.action = AddAction(last.member, last.action.position1.group_index))
       => LET g == last.action.position1.group_index + 1
          IN  /\ groups'[g].penalty_score = pre.groups[g].penalty_score
              /\ penalty_score' = pre.penalty_score
              /\ \A tag \in Tags :
                    TagCount(groups'[g].tagcounts, tag)
                      = TagCount(pre.groups[g].tagcounts, tag)]_vars

\* C10: for every pair of operands of which at least one is Failed, the
\* combination returns, and returns a Failed holding all errors of both.
C10_FailedDominates ==
    (sum # NoResult /\ (lhs.kind = "Failed" \/ rhs.kind = "Failed"))
    => /\ sum.kind = "Failed"
       /\ Len(sum.errs) = Len(lhs.errs) + Len(rhs.errs)

\* C11: for two non-Failed operands the combination carries the sum of the
\* two score deltas, and is ScoreDiff only when both operands are ScoreDiff;
\* an UnsatisfiedScoreDiff on either side makes it UnsatisfiedScoreDiff.
C11_UnsatisfiedTaints ==
    (sum # NoResult /\ NonFailed(lhs) /\ NonFailed(rhs))
    => /\ sum.score = lhs.score + rhs.score
       /\ sum.kind = IF lhs.kind = "ScoreDiff" /\ rhs.kind = "ScoreDiff"
                     THEN "ScoreDiff" ELSE "UnsatisfiedScoreDiff"

\* C11 witness: an unsatisfied left operand and a satisfied right operand
\* (the pair no arm of the match names) have combined into an unsatisfied
\* result with a non-zero score.
C11_Witness ==
    /\ lhs.kind = "UnsatisfiedScoreDiff" /\ rhs.kind = "ScoreDiff"
    /\ sum.kind = "UnsatisfiedScoreDiff" /\ sum.score # 0
    /\ lhs.score # rhs.score

\* C12: for every pair of operands a and b, a + b and b + a both return a
\* result, and the two results are equal.
C12_AddCommutes ==
    sum # NoResult
    => /\ sum.kind # "Aborted"
       /\ ResultAdd(rhs, lhs) = sum

\* The members of a group with the members at two of its indices exchanged.
Exchanged(members, i, j) ==
    [k \in DOMAIN members |->
        IF k = i + 1 THEN members[j + 1]
        ELSE IF k = j + 1 THEN members[i + 1] ELSE members[k]]

\* C13: simulate of a Swap of two valid positions of one group returns the
\* from-scratch change of that group's pair sum under the exchange (zero: the
\* membership is unchanged), classified by the group's unchanged tag tally.
C13_SameGroupSwapIsNeutral ==
    (/\ last.op = "simulate" /\ last.action.kind = "Swap"
     /\ HasMember(pre.groups, last.action.position1)
     /\ HasMember(pre.groups, last.action.position2)
     /\ last.action.position1.group_index = last.action.position2.group_index)
    => LET group == pre.groups[last.action.position1.group_index + 1]
           after == GroupCacheCreate(
                        Exchanged(group.members,
                                  last.action.position1.member_index,
                                  last.action.position2.member_index),
                        condition.penalty)
           delta == after.penalty_score
                      - calc_score(group.members, condition.penalty)
       IN  /\ delta = 0
           /\ last.result = Classify(condition, after.tagcounts,
                                     Len(after.members), delta)

\* A valid Add, Remove, cross-group Swap or cross-group Move: every index in
\* range, and the two groups of a Swap or a Move different.
ValidCrossGroup(gs, action) ==
    /\ AllIndicesInRange(gs, action)
    /\ action.kind = "Swap"
          => action.position1.group_index # action.position2.group_index
    /\ action.kind = "Move"
          => action.position1.group_index # action.group_index
    /\ action.kind = "Add"
          => \A g \in DOMAIN gs : action.member.id \notin get_ids(gs[g])

\* The member lists of the table as the action leaves them, written out
\* from the meaning of the action.
TableAfter(gs, action) ==
    LET table == [g \in DOMAIN gs |-> gs[g].members]
        g1 == action.position1.group_index + 1
        m1 == action.position1.member_index
        g2 == action.position2.group_index + 1
        m2 == action.position2.member_index
        to == action.group_index + 1
    IN  CASE action.kind = "Add" ->
                [table EXCEPT ![to] = Append(@, action.member)]
          [] action.kind = "Remove" ->
                [table EXCEPT ![g1] = VecRemove(@, m1)]
          [] action.kind = "Swap" ->
                [table EXCEPT ![g1][m1 + 1] = table[g2][m2 + 1],
                              ![g2][m2 + 1] = table[g1][m1 + 1]]
          [] action.kind = "Move" ->
                [table EXCEPT ![g1] = VecRemove(@, m1),
                              ![to] = Append(@, table[g1][m1 + 1])]

\* The groups an action touches.
Touched(action) ==
    CASE action.kind = "Add"    -> {action.group_index + 1}
      [] action.kind = "Remove" -> {action.position1.group_index + 1}
      [] action.kind = "Swap"   -> {action.position1.group_index + 1,
                                    action.position2.group_index + 1}
      [] action.kind = "Move"   -> {action.position1.group_index + 1,
                                    action.group_index + 1}

\* Sum over the groups of get_pair over the unordered pairs of group-mates.
TotalPenalty(table, penalty) ==
    SumOver(DOMAIN table, [g \in DOMAIN table |-> calc_score(table[g], penalty)])

\* C14: for a valid Add, Remove, cross-group Swap or cross-group Move on a
\* table of pairwise distinct ids, the score delta simulate returns is the
\* from-scratch total penalty of the table after the action less the
\* from-scratch total before it.
C14_SimulatedDeltaFromScratch ==
    (last.op = "simulate" /\ ValidCrossGroup(pre.groups, last.action))
    => last.result.score
         = TotalPenalty(TableAfter(pre.groups, last.action), condition.penalty)
           - TotalPenalty([g \in DOMAIN pre.groups |-> pre.groups[g].members],
                          condition.penalty)

\* C14 witness: simulate of a cross-group Swap, on a cache that act has
\* changed, has returned a non-zero delta.
C14_Witness ==
    /\ last.op = "simulate" /\ last.action.kind = "Swap" /\ nActs >= 1
    /\ ValidCrossGroup(pre.groups, last.action)
    /\ NonFailed(last.result) /\ last.result.score # 0

\* Constraint.check passes on the from-scratch tag tally and the size of
\* a member list.
ProjectionPasses(members) ==
    ConstraintCheck(condition.constraint,
                    GroupCacheCreate(members, condition.penalty).tagcounts,
                    Len(members)) = {}

\* C15: for a valid Add, Remove, cross-group Swap or cross-group Move,
\* simulate returns ScoreDiff exactly when Constraint.check passes on the
\* projected tag counts and size of every group the action touches, and
\* UnsatisfiedScoreDiff exactly when a touched group's projection fails;
\* the other groups play no part.
C15_ClassifiedByTouchedGroups ==
    (last.op = "simulate" /\ ValidCrossGroup(pre.groups, last.action))
    => LET after == TableAfter(pre.groups, last.action)
           passes == \A g \in Touched(last.action) : ProjectionPasses(after[g])
       IN  /\ NonFailed(last.result)
           /\ last.result.kind = "ScoreDiff" <=> passes

\* C15 witness: simulate of an action that touches one group has returned
\* ScoreDiff while another group of the table fails the check as it stands.
C15_Witness ==
    /\ last.op = "simulate" /\ ValidCrossGroup(pre.groups, last.action)
    /\ last.result.kind = "ScoreDiff"
    /\ \E g \in DOMAIN pre.groups :
          /\ g \notin Touched(last.action)
          /\ ~ProjectionPasses(pre.groups[g].members)

\* C16: Constraint.check returns Ok(()) exactly when the count (0 when the
\* tag is absent) of every configured tag lies within its Range, and else
\* Err with exactly the configured tags out of range: a Count range is
\* violated iff count < min or count > max, a Ratio range iff
\* count < min * n_members or count > max * n_members; a tag with no
\* configured Range is never in the error set.
C16_CheckReportsViolatedTags ==
    ret.fn = "check"
    => LET Count(tag) == IF tag \in DOMAIN args.tagcounts
                         THEN args.tagcounts[tag] ELSE 0
           OutOfRange(tag) ==
               LET range == args.constraint[tag]
               IN  IF range.kind = "Count"
                   THEN Count(tag) < range.min \/ Count(tag) > range.max
                   ELSE \/ range.den * Count(tag) < range.min * args.n_members
                        \/ range.den * Count(tag) > range.max * args.n_members
       IN  /\ ret.ok <=> \A tag \in DOMAIN args.constraint : ~OutOfRange(tag)
           /\ ret.ok <=> ret.err = {}
           /\ \A tag \in Tags \cup DOMAIN args.constraint :
                 tag \in ret.err
                   <=> (tag \in DOMAIN args.constraint /\ OutOfRange(tag))

\* C16 witness: with two tags configured, check has returned Err naming only
\* a tag that is absent from the tag counts, the other tag is within a Ratio
\* range that a member count of zero would make it miss, and an unconfigured
\* tag has a count above every configured maximum.
C16_Witness ==
    /\ ret.fn = "check" /\ ~ret.ok
    /\ DOMAIN args.constraint = {"a", "b"}
    /\ ret.err = {"a"} /\ "a" \notin DOMAIN args.tagcounts
    /\ args.constraint["b"].kind = "Ratio"
    /\ "b" \in DOMAIN args.tagcounts /\ args.tagcounts["b"] >= 1
    /\ "c" \in DOMAIN args.tagcounts /\ args.tagcounts["c"] > 2

\* C17: get_pair gives the same score for [a, b] and [b, a] when a # b,
\* and gives the stored score when the unordered pair is a key of scores
\* and default otherwise.
C17_PairIsSymmetricWithDefault ==
    ret.fn = "get_pair"
    => LET a == args.ids[1]
           b == args.ids[2]
           keys == {key \in DOMAIN args.penalty.scores :
                       /\ a \in key /\ b \in key
                       /\ \A id \in key : id = a \/ id = b}
       IN  /\ a # b => ret.ab = ret.ba
           /\ \A key \in keys : ret.ab = args.penalty.scores[key]
           /\ keys = {} => ret.ab = args.penalty.default

\* C17 witness: get_pair has been called with the larger id first on a
\* stored pair whose score differs from the default.
C17_Witness ==
    /\ ret.fn = "get_pair" /\ args.ids[1] > args.ids[2]
    /\ {args.ids[1], args.ids[2]} \in DOMAIN args.penalty.scores
    /\ ret.ab # args.penalty.default /\ ret.ab = ret.ba

\* C18: TableCache::create builds one GroupCache per group of the table, in
\* order and with the same members in order; each group's penalty_score is
\* get_pair summed once over its unordered member pairs, its tagcounts the
\* tag tally of its members, and the table's penalty_score the sum of the
\* group scores (12 = 3 + 9 on the fixture).
C18_CreateEstablishesInvariants ==
    ret.fn = "create"
    => LET cache == ret.cache
           table == args.table
           Twice(members) ==
               LET pairs == {p \in (DOMAIN members) \X (DOMAIN members) : p[1] # p[2]}
               IN  SumOver(pairs, [p \in pairs |->
                       IF {members[p[1]].id, members[p[2]].id}
                              \in DOMAIN args.penalty.scores
                       THEN args.penalty.scores[{members[p[1]].id, members[p[2]].id}]
                       ELSE args.penalty.default])
       IN  /\ Len(cache.groups) = Len(table)
           /\ \A g \in DOMAIN table :
                 /\ cache.groups[g].members = table[g]
                 /\ 2 * cache.groups[g].penalty_score = Twice(table[g])
                 /\ \A tag \in Tags :
                       TagCount(cache.groups[g].tagcounts, tag)
                         = Tally(cache.groups[g], tag)
           /\ cache.penalty_score
                 = SumOver(DOMAIN table,
                           [g \in DOMAIN table |-> cache.groups[g].penalty_score])
           /\ (table = FixtureTable /\ args.penalty = FixturePenalty)
                 => /\ cache.penalty_score = 12
                    /\ cache.groups[1].penalty_score = 3
                    /\ cache.groups[2].penalty_score = 9

\* C18 witness: create has been called on the fixture and has returned a
\* cache of two groups of three members with table score 12.
C18_Witness ==
    /\ ret.fn = "create" /\ args.table = FixtureTable
    /\ Len(ret.cache.groups) = 2
    /\ \A g \in 1..2 : Len(ret.cache.groups[g].members) = 3
    /\ ret.cache.penalty_score = 12

\* C19: the loop stops after exactly max_iterations counted iterations: a
\* candidate that evaluates to ScoreDiff or UnsatisfiedScoreDiff adds one
\* to n_iterations whether it is accepted or rejected, a Failed candidate
\* is redrawn with n_iterations and the table as they were, and when the
\* generator eventually emits a non-Failed candidate the loop reaches
\* n_iterations = max_iterations and terminates.
C19_LoopStopsAtBudget ==
    /\ [][/\ n_iterations' = n_iterations \/ n_iterations' = n_iterations + 1
          /\ n_iterations' = n_iterations + 1
                => last.op \in {"simulate", "act"} /\ last.action = candidate
          /\ (pc = "decide" /\ last.result.kind = "Failed")
                => /\ pc' = "draw" /\ n_iterations' = n_iterations
                   /\ groups' = groups /\ penalty_score' = penalty_score]_vars
    /\ \A k \in 0..(max_iterations - 1) :
          (pc = "decide" /\ NonFailed(last.result) /\ n_iterations = k)
            ~> (pc = "draw" /\ n_iterations = k + 1)
    /\ [](n_iterations <= max_iterations)
    /\ [](pc = "done" => n_iterations = max_iterations)
    /\ <>(pc = "done")

\* C19 witness: the loop has stopped at max_iterations after accepting some
\* candidates and rejecting others.
C19_Witness ==
    /\ pc = "done" /\ n_iterations = max_iterations
    /\ nActs >= 1 /\ nActs < n_iterations

\* C20: a rejected candidate leaves the working TableCache unchanged, and
\* the cache changes only in the one act call that commits an accepted
\* candidate, by the exchange that same candidate Swap names.
C20_OnlyCommitChangesTable ==
    [][/\ (groups' # groups \/ penalty_score' # penalty_score)
            => /\ pc = "commit" /\ pc' # "commit"
               /\ candidate.kind = "Swap" /\ candidate' = candidate
               /\ last'.op = "act" /\ last'.action = candidate
               /\ [g \in DOMAIN groups' |-> groups'[g].members]
                     = TableAfter(groups, candidate)
       /\ pc' = "commit" => pc = "decide" /\ NonFailed(last.result)
       /\ (pc = "decide" /\ pc' # "commit")
            => \A g \in DOMAIN groups : groups'[g] = pre.groups[g]]_vars

\* C20 witness: a candidate that evaluated to a score delta has been
\* rejected after an earlier candidate was committed, and the cache is as
\* it was when the candidate was drawn.
C20_Witness ==
    /\ pc = "cool" /\ last.op = "simulate" /\ last.action = candidate
    /\ NonFailed(last.result) /\ nActs >= 1
    /\ groups = pre.groups /\ penalty_score = pre.penalty_score


\* C21: every candidate the generator emits is a Swap of two positions of
\* different groups, both naming a member of the table the generator was
\* built from; a candidate is emitted again and again, without end; and a
\* pool that was empty is refilled with the full sweep of positions.
C21_EndlessCrossGroupSwaps ==
    /\ [](pc = "emitted" =>
            /\ candidate.kind = "Swap"
            /\ candidate.position1.group_index # candidate.position2.group_index
            /\ HasMember(groups, candidate.position1)
            /\ HasMember(groups, candidate.position2))
    /\ []<>(pc = "emitted")
    /\ [][pool = {} /\ pool' # {} => pool' = GeneratorPositions(groups)]_vars

\* A candidate whose second position was drawn from a sweep reshuffled in
\* the middle of the draw.
C21_Witness ==
    /\ pc = "emitted"
    /\ Cardinality(pool) = Cardinality(GeneratorPositions(groups)) - 1
    /\ Cardinality(GeneratorPositions(groups)) % 2 = 1


\* C22: GroupCache.swap with an index in range puts the new member at that
\* index, leaves every other member where it was and returns the member that
\* was there; the members, tag counts and penalty score it leaves are those
\* of remove at the index followed by add of the new member at that slot.
C22_SwapIsRemoveThenAdd ==
    (ret.fn = "swap" /\ args.index < Len(args.group.members)) =>
        LET before  == args.group.members
            after   == ret.result.group
            removed == GroupCacheRemove(args.group, args.index, args.cond)
            added   == GroupCacheAdd(removed.group, args.member, args.cond)
        IN  /\ ret.result.ok
            /\ ret.result.member = before[args.index + 1]
            /\ Len(after.members) = Len(before)
            /\ \A k \in DOMAIN before :
                  after.members[k] = IF k = args.index + 1 THEN args.member
                                                            ELSE before[k]
            /\ removed.ok /\ removed.member = ret.result.member
            /\ after.members = VecInsert(removed.group.members, args.index, args.member)
            /\ after.tagcounts = added.tagcounts
            /\ after.penalty_score = added.penalty_score

\* A swap at the front of a group of several members that changes the
\* group's penalty score and its tag counts.
C22_Witness ==
    /\ ret.fn = "swap" /\ ret.result.ok
    /\ args.index = 0 /\ Len(args.group.members) >= 2
    /\ ret.result.group.penalty_score # args.group.penalty_score
    /\ ret.result.group.tagcounts # args.group.tagcounts


\* C23: simulate always returns a value and never aborts; for a Move whose
\* source position is valid and whose target group index is not below the
\* number of groups, the value is Failed([InvalidPosition]).
C23_SimulateAlwaysReturns ==
    last.op = "simulate" =>
        /\ last.result.kind # "Aborted"
        /\ (/\ last.action.kind = "Move"
            /\ HasMember(pre.groups, last.action.position1)
            /\ ~HasGroup(pre.groups, last.action.group_index))
           => last.result = Failed(<<InvalidPosition>>)


\* Number of members of a table that carry an id.
IdCount(gs, id) ==
    LET occurrences == {<<g, k>> \in (DOMAIN gs) \X (1..NMembers) :
                           k \in DOMAIN gs[g].members /\ gs[g].members[k].id = id}
    IN  Cardinality(occurrences)

\* C24: the number of groups never changes.  A successful act of a Swap or
\* a Move leaves the multiset of member ids of the table unchanged.  A
\* successful Swap leaves every group size unchanged and exchanges exactly
\* the two addressed members; a successful Move takes one member from the
\* source group and gives one to the target group, where the moved member is
\* the last element.
C24_PopulationConserved ==
    /\ Len(groups) = Len(pre.groups)
    /\ (ActSucceeded /\ last.action.kind \in {"Swap", "Move"}) =>
          LET p1   == last.action.position1
              p2   == last.action.position2
              to   == last.action.group_index
              was  == [g \in DOMAIN pre.groups |-> pre.groups[g].members]
              now  == [g \in DOMAIN groups |-> groups[g].members]
          IN  /\ \A id \in Ids : IdCount(groups, id) = IdCount(pre.groups, id)
              /\ last.action.kind = "Swap" =>
                    \A g \in DOMAIN now :
                       /\ Len(now[g]) = Len(was[g])
                       /\ \A k \in DOMAIN now[g] :
                             now[g][k] =
                                IF Position(g - 1, k - 1) = p1
                                THEN was[p2.group_index + 1][p2.member_index + 1]
                                ELSE IF Position(g - 1, k - 1) = p2
                                THEN was[p1.group_index + 1][p1.member_index + 1]
                                ELSE was[g][k]
              /\ last.action.kind = "Move" =>
                    /\ \A g \in DOMAIN now :
                          Len(now[g]) = Len(was[g])
                                        - (IF g = p1.group_index + 1 THEN 1 ELSE 0)
                                        + (IF g = to + 1 THEN 1 ELSE 0)
                    /\ now[to + 1][Len(now[to + 1])]
                          = was[p1.group_index + 1][p1.member_index + 1]
                    /\ now = TableAfter(pre.groups, last.action)

\* A swap of two different members of one group has succeeded on a table
\* that an earlier act had changed.
C24_Witness ==
    /\ ActSucceeded /\ last.action.kind = "Swap" /\ nActs >= 2
    /\ last.action.position1.group_index = last.action.position2.group_index
    /\ last.action.position1 # last.action.position2
    /\ groups # pre.groups


\* Every group of a table passes Constraint.check on its tag counts and size.
AllFeasible(gs) ==
    \A g \in DOMAIN gs :
        ConstraintCheck(condition.constraint, gs[g].tagcounts,
                        Len(gs[g].members)) = {}

\* C25: when every group passes Constraint.check and simulate of a valid
\* action returns ScoreDiff, every group passes Constraint.check after act
\* of that action.
C25_ScoreDiffKeepsFeasible ==
    (/\ last.op = "act"
     /\ AllFeasible(pre.groups)
     /\ AllIndicesInRange(pre.groups, last.action)
     /\ TableSimulate(pre.groups, last.action, condition).kind = "ScoreDiff")
    => last.ok /\ AllFeasible(groups)

\* act has committed a Move that simulate rated ScoreDiff on a table whose
\* groups all passed, and the tag counts of the groups have changed.
C25_Witness ==
    /\ ActSucceeded /\ last.action.kind = "Move"
    /\ AllFeasible(pre.groups)
    /\ TableSimulate(pre.groups, last.action, condition).kind = "ScoreDiff"
    /\ \E g \in DOMAIN groups : groups[g].tagcounts # pre.groups[g].tagcounts
    /\ AllFeasible(groups)


\* The subtraction self - other takes no count below zero: every tag of
\* other has an entry in self that is at least the amount subtracted.
Covers(self, other) ==
    \A t \in DOMAIN other : t \in DOMAIN self /\ self[t] >= other[t]

\* No count of a tag counter is below zero.
NonNegative(tagcounts) == \A t \in DOMAIN tagcounts : tagcounts[t] >= 0

\* No TagCounter subtraction that remove or swap can make on a table takes
\* a count below zero: for every group and every index in range, the tags of
\* the member at the index are covered by the group's tag counts (remove) and
\* by the tag counts with the incoming member's tags added (swap), and the
\* incoming member can be swapped out again for the one that left (the
\* second swap of a Swap within one group).
NoTagUnderflowOn(gs) ==
    \A g \in DOMAIN gs :
       \E tagcounts \in {gs[g].tagcounts} :
          /\ NonNegative(tagcounts)
          /\ \A k \in DOMAIN gs[g].members :
                \E leaving \in {MemberTagCounter(gs[g].members[k])} :
                   /\ Covers(tagcounts, leaving)
                   /\ NonNegative(TagCounterSub(tagcounts, leaving))
                   /\ \A member \in Members :
                         \E incoming \in {MemberTagCounter(member)} :
                            \E sum2 \in {TagCounterAdd(tagcounts, incoming)} :
                               /\ Covers(sum2, leaving)
                               /\ \E swapped \in {TagCounterSub(sum2, leaving)} :
                                     /\ NonNegative(swapped)
                                     /\ Covers(TagCounterAdd(swapped, leaving), incoming)

\* C26: on every reachable table, no TagCounter subtraction made by
\* simulate_remove, simulate_swap, GroupCache.remove or GroupCache.swap takes
\* a count below zero.  A table is examined in the state where create or act
\* produced it; after a simulate the table is the one of the state before.
C26_NoTagUnderflow ==
    \/ last.op = "simulate" /\ groups = pre.groups
    \/ NoTagUnderflowOn(groups)

\* A successful Remove or Swap has taken the last carrier of a tag out of a
\* group: the tag stays in the group's tag counts with count 0.
C26_Witness ==
    /\ ActSucceeded /\ last.action.kind \in {"Remove", "Swap"}
    /\ \E g \in DOMAIN groups :
          \E t \in DOMAIN groups[g].tagcounts :
             /\ groups[g].tagcounts[t] = 0
             /\ pre.groups[g].tagcounts[t] > 0


\* The plain members of the cached group, in order.
CachedMembers(group) == [k \in DOMAIN group.members |-> group.members[k].member]

\* C27: in the GroupCache of anneal.rs, after create and any sequence of
\* successful add, remove and swap calls, every CachedMember's score is the
\* sum of get_pair between it and every other current member; the group
\* holds exactly the members it should (add appends the member, remove
\* deletes exactly the member at the index, swap replaces the member at the
\* index); and penalty_score is half the sum of the cached scores.
C27_CachedScoresStayExact ==
    /\ [](~cached.aborted =>
            LET members == CachedMembers(cached)
                Others(k) == (DOMAIN members) \ {k}
                scores == [k \in DOMAIN members |-> cached.members[k].score]
            IN  /\ \A k \in DOMAIN members :
                      scores[k] = SumOver(Others(k), [j \in Others(k) |->
                                     get_pair(condition.penalty, members[k].id,
                                              members[j].id)])
                /\ 2 * cached.penalty_score = SumOver(DOMAIN members, scores))
    /\ [][(ret'.fn \in {"add", "remove", "swap"} /\ ret'.ok /\ nActs' = nActs + 1) =>
             CachedMembers(cached') =
                CASE args'.fn = "add" ->
                        Append(CachedMembers(cached), args'.member)
                  [] args'.fn = "remove" ->
                        VecRemove(CachedMembers(cached), args'.index)
                  [] args'.fn = "swap" ->
                        VecInsert(VecRemove(CachedMembers(cached), args'.index),
                                  args'.index, args'.member)]_vars

============================================================================
